---- MODULE Spec2Model ----
(***************************************************************************)
(* Ark transaction builders (boarding, commitment, forfeit) with Taproot   *)
(* script trees and MuSig2-style key aggregation.                          *)
(*                                                                         *)
(* Byte strings are sequences of 0..255.  The secp256k1 group is modelled  *)
(* by a cyclic group of small prime order CurveOrder: a point is its       *)
(* discrete logarithm k (0 is the point at infinity), P and -P share the   *)
(* x-only encoding.  SHA-256 is modelled by an order-sensitive rolling     *)
(* digest whose 32-byte output carries the digest in its last two bytes.   *)
(***************************************************************************)
EXTENDS Integers, Sequences, FiniteSets, TLC

\* ------------------------------------------------------------------ bounds
\* builder calls in one behaviour
MaxCalls == 3
\* keys handed to one aggregation
MaxKeys == 3
\* entries of OperatorUTXOs, and of BoardingOutputs
MaxUTXOs == 2
\* builder calls started at once by the concurrent caller
MaxGoroutines == 2
\* leaf scripts handed to one CreateTaprootScript call
MaxLeaves == 3

\* ------------------------------------------------- constants (types.go)
TxVersion == 2
DustLimit == 546
MinFeeRate == 1
SequenceBoardingTx == <<255, 255, 255, 253>>
SequenceCommitmentTx == <<255, 255, 255, 255>>
SequenceForfeitTx == <<255, 255, 255, 255>>

\* size of a P2TR witness assumed per input by estimateTxSize
WitnessPerInput == 66

\* order of the model group and modulus of the model digest
CurveOrder == 251
DigestMod == 32749

\* a Go pointer or optional value: Nil, or a one-element sequence holding it
Nil == <<>>
Some(x) == <<x>>
Deref(p) == p[1]
\* a nil error
NoError == ""

\* ------------------------------------------------------------ byte helpers
Min(a, b) == IF a < b THEN a ELSE b

Zeros(n) == [i \in 1 .. n |-> 0]

\* bytes.Compare: -1, 0, 1 by lexicographic order, a proper prefix is smaller
\* positions at which both strings have a byte and the bytes differ
Diffs(a, b) == {i \in 1 .. Min(Len(a), Len(b)) : a[i] # b[i]}
FirstDiff(a, b) == CHOOSE i \in Diffs(a, b) : \A j \in Diffs(a, b) : i <= j

BytesCompare(a, b) ==
    IF Diffs(a, b) # {}
    THEN IF a[FirstDiff(a, b)] < b[FirstDiff(a, b)] THEN -1 ELSE 1
    ELSE IF Len(a) < Len(b) THEN -1
    ELSE IF Len(a) > Len(b) THEN 1
    ELSE 0

\* little-endian bytes of a non-negative integer on exactly n bytes
RECURSIVE LittleEndian(_, _)
LittleEndian(v, n) ==
    IF n = 0 THEN <<>> ELSE <<v % 256>> \o LittleEndian(v \div 256, n - 1)

\* 32-byte big-endian encoding of a value below 65536
Bytes32(v) == Zeros(30) \o <<v \div 256, v % 256>>

\* base^e modulo m, by squaring
RECURSIVE PowMod(_, _, _)
PowMod(base, e, m) ==
    IF e = 0 THEN 1 % m
    ELSE LET h == PowMod(base, e \div 2, m)
         IN IF e % 2 = 0 THEN (h * h) % m ELSE (((h * h) % m) * base) % m

\* sum over i in lo..hi of (b[i] + off) * base^(hi - i), modulo m, by halves
RECURSIVE PolyMod(_, _, _, _, _, _)
PolyMod(b, lo, hi, base, m, off) ==
    IF lo > hi THEN 0
    ELSE IF lo = hi THEN (b[lo] + off) % m
    ELSE LET mid == (lo + hi) \div 2
         IN (PolyMod(b, lo, mid, base, m, off) * PowMod(base, hi - mid, m)
             + PolyMod(b, mid + 1, hi, base, m, off)) % m

\* big-endian value of a byte string modulo m
BigEndianMod(b, m) == PolyMod(b, 1, Len(b), 256, m, 0)

\* a uint32 is kept as its four bytes, most significant first; the wire
\* format writes them least significant first
Reverse(b) == [i \in 1 .. Len(b) |-> b[Len(b) + 1 - i]]

\* wire.VarIntSerializeSize for the lengths that occur (below 0xfd)
VarIntSerializeSize(n) == IF n < 253 THEN 1 ELSE 3

\* wire.WriteVarInt for values below 0xfd
VarInt(n) == <<n>>

\* ------------------------------------------------------------- hash model
\* rolling digest: h := h * 257 + byte + 1 over the bytes, from h = 7
Digest(b) ==
    (7 * PowMod(257, Len(b), DigestMod) + PolyMod(b, 1, Len(b), 257, DigestMod, 1))
        % DigestMod

\* sha256.Sum256
Sha256(b) == Bytes32(Digest(b))

\* ------------------------------------------------------------ group model

\* btcec.AddNonConst
AddNonConst(p, q) == (p + q) % CurveOrder

\* btcec.ScalarMultNonConst
ScalarMultNonConst(k, p) == (k * p) % CurveOrder

\* the negation of a point: same x, other y
Negate(p) == (CurveOrder - p) % CurveOrder

\* x coordinate: shared by p and -p; the point at infinity encodes as 0
XCoord(p) == Min(p, Negate(p))

\* schnorr.SerializePubKey: 32-byte x-only encoding
SerializePubKey(p) == Bytes32(XCoord(p))

\* schnorr.ParsePubKey: the point with that x and even y
ParsePubKey(b) == XCoord(BigEndianMod(b, CurveOrder))

\* btcec.ModNScalar.SetByteSlice: big-endian value reduced modulo the order
SetByteSlice(b) == BigEndianMod(b, CurveOrder)

\* --------------------------------------------------- MuSig2 (taproot.go)
Front(s) == SubSeq(s, 1, Len(s) - 1)
Last(s) == s[Len(s)]

\* the comparator handed to sort.Slice in MuSig2AggregateKeys
KeyLess(a, b) == BytesCompare(SerializePubKey(a), SerializePubKey(b)) < 0

\* sort.Slice on at most 12 elements is an insertion sort
RECURSIVE InsertKey(_, _)
InsertKey(sorted, k) ==
    IF sorted = <<>> THEN <<k>>
    ELSE IF KeyLess(k, Last(sorted))
         THEN InsertKey(Front(sorted), k) \o <<Last(sorted)>>
         ELSE sorted \o <<k>>

RECURSIVE SortKeys(_)
SortKeys(keys) ==
    IF keys = <<>> THEN <<>> ELSE InsertKey(SortKeys(Front(keys)), Last(keys))

\* the keys left in the caller's order
sortedKeys_unsorted(pubKeys) == pubKeys

\* the keys in aggregation order (taproot.go:23-31)
sortedKeys(pubKeys) == SortKeys(pubKeys)

\* P1 || P2 || ... || Pn
RECURSIVE ConcatKeys(_)
ConcatKeys(keys) ==
    IF keys = <<>> THEN <<>>
    ELSE SerializePubKey(Head(keys)) \o ConcatKeys(Tail(keys))

\* L taken over the keys in the caller's order
keyListHash_callerOrder(pubKeys) == Sha256(ConcatKeys(pubKeys))

\* L = H(P1 || ... || Pn) over the sorted keys
keyListHash(pubKeys) == Sha256(ConcatKeys(sortedKeys(pubKeys)))

\* every coefficient one: plain point addition
coefScalar_one(L, pk) == 1

\* a_i = H(L || P_i) as a scalar
coefScalar(L, pk) == SetByteSlice(Sha256(L \o SerializePubKey(pk)))

\* Q = sum of a_i * P_i, starting from the point at infinity
RECURSIVE AggregateLoop(_, _, _)
AggregateLoop(keys, L, aggPoint) ==
    IF keys = <<>> THEN aggPoint
    ELSE AggregateLoop(Tail(keys), L,
            AddNonConst(aggPoint, ScalarMultNonConst(coefScalar(L, Head(keys)), Head(keys))))

\* a single key taken for no key
MuSig2AggregateKeys_two(pubKeys) ==
    IF Len(pubKeys) <= 1
    THEN [key |-> Nil, err |-> "at least one public key is required"]
    ELSE [key |-> Some(AggregateLoop(sortedKeys(pubKeys), keyListHash(pubKeys), 0)),
          err |-> NoError]

MuSig2AggregateKeys(pubKeys) ==
    IF Len(pubKeys) = 0
    THEN [key |-> Nil, err |-> "at least one public key is required"]
    ELSE [key |-> Some(AggregateLoop(sortedKeys(pubKeys), keyListHash(pubKeys), 0)),
          err |-> NoError]

\* ------------------------------------------------ script assembly (txscript)
OP_1 == 81
OP_CHECKSIG == 172
OP_CHECKSIGVERIFY == 173
OP_CHECKLOCKTIMEVERIFY == 177
OP_CHECKSEQUENCEVERIFY == 178
BaseLeafVersion == 192

\* ScriptBuilder.AddData for pushes of 1..75 bytes: length opcode, then data
AddData(data) == <<Len(data)>> \o data

\* minimal little-endian script number of a positive value (sign byte added
\* when the top bit of the last byte is set)
RECURSIVE ScriptNumBytes(_)
ScriptNumBytes(n) ==
    IF n < 128 THEN <<n>>
    ELSE IF n < 256 THEN <<n, 0>>
    ELSE <<n % 256>> \o ScriptNumBytes(n \div 256)

\* ScriptBuilder.AddInt64 for non-negative values
AddInt64(n) ==
    IF n = 0 THEN <<0>>
    ELSE IF n <= 16 THEN <<OP_1 - 1 + n>>
    ELSE AddData(ScriptNumBytes(n))

BuildCheckSigScript(pubKey) == AddData(SerializePubKey(pubKey)) \o <<OP_CHECKSIG>>

BuildCheckSigWithTimelockScript(pubKey, blocks) ==
    AddData(SerializePubKey(pubKey)) \o <<OP_CHECKSIGVERIFY>>
        \o AddInt64(blocks) \o <<OP_CHECKSEQUENCEVERIFY>>

BuildCheckSigWithAbsTimelockScript(pubKey, lockTime) ==
    AddData(SerializePubKey(pubKey)) \o <<OP_CHECKSIGVERIFY>>
        \o AddInt64(lockTime) \o <<OP_CHECKLOCKTIMEVERIFY>>

\* ------------------------------------------------------ Taproot (taproot.go)
TagTapLeaf == <<84, 97, 112, 76, 101, 97, 102>>
TagTapBranch == <<84, 97, 112, 66, 114, 97, 110, 99, 104>>
TagTapTweak == <<84, 97, 112, 84, 119, 101, 97, 107>>

taggedHash(tag, data) == Sha256(Sha256(tag) \o Sha256(tag) \o data)

tapLeafHash(script) ==
    taggedHash(TagTapLeaf, <<BaseLeafVersion>> \o VarInt(Len(script)) \o script)

\* the two children hashed in the order given
tapBranchHash_unsorted(left, right) == taggedHash(TagTapBranch, left \o right)

tapBranchHash(left, right) ==
    IF BytesCompare(left, right) > 0
    THEN taggedHash(TagTapBranch, right \o left)
    ELSE taggedHash(TagTapBranch, left \o right)

RECURSIVE LeafHashes(_)
LeafHashes(scripts) ==
    IF scripts = <<>> THEN <<>>
    ELSE <<tapLeafHash(Head(scripts))>> \o LeafHashes(Tail(scripts))

\* one level of the tree: neighbours paired, an unpaired last node promoted
RECURSIVE NextLevel(_)
NextLevel(leaves) ==
    IF leaves = <<>> THEN <<>>
    ELSE IF Len(leaves) = 1 THEN leaves
    ELSE <<tapBranchHash(leaves[1], leaves[2])>> \o NextLevel(SubSeq(leaves, 3, Len(leaves)))

RECURSIVE FoldLevels(_)
FoldLevels(leaves) ==
    IF Len(leaves) > 1 THEN FoldLevels(NextLevel(leaves)) ELSE leaves[1]

buildTapscriptMerkleRoot(scripts) ==
    IF Len(scripts) = 0 THEN <<>> ELSE FoldLevels(LeafHashes(scripts))

numsPoint == <<80, 146, 155, 116, 193, 160, 73, 84, 183, 139, 75, 96, 53, 233, 122, 94,
               7, 138, 90, 15, 40, 236, 150, 213, 71, 191, 238, 154, 206, 128, 58, 192>>

\* txscript.ComputeTaprootOutputKey: internal key (even y) plus t*G with
\* t = H_TapTweak(x(internal) || root); the generator is the point 1
ComputeTaprootOutputKey(internalKey, merkleRoot) ==
    LET even == XCoord(internalKey)
        t == SetByteSlice(taggedHash(TagTapTweak, SerializePubKey(even) \o merkleRoot))
    IN AddNonConst(even, ScalarMultNonConst(t, 1))

\* schnorr.ParsePubKey never fails on numsPoint, so no error is returned
CreateTaprootScript(internalPubKey, scripts) ==
    LET internalKey == IF internalPubKey = Nil
                       THEN ParsePubKey(numsPoint)
                       ELSE Deref(internalPubKey)
        taprootKey == IF Len(scripts) = 0
                      THEN internalKey
                      ELSE ComputeTaprootOutputKey(internalKey, buildTapscriptMerkleRoot(scripts))
    IN <<OP_1>> \o AddData(SerializePubKey(taprootKey))

\* ------------------------------------------------------ transactions (wire)
\* wire.NewTxIn(wire.NewOutPoint(&utxo.TxHash, utxo.OutputIndex), nil, nil)
NewTxIn(utxo, sequence) ==
    [PreviousOutPoint |-> [Hash |-> utxo.TxHash, Index |-> utxo.OutputIndex],
     SignatureScript |-> <<>>,
     Sequence |-> sequence]

NewTxOut(value, pkScript) == [Value |-> value, PkScript |-> pkScript]

\* the lock time taken from the version argument
newDeterministicTx_swapped(version, lockTime) ==
    [Version |-> version, TxIn |-> <<>>, TxOut |-> <<>>, LockTime |-> version]

\* types.go: newDeterministicTx
newDeterministicTx(version, lockTime) ==
    [Version |-> version, TxIn |-> <<>>, TxOut |-> <<>>, LockTime |-> lockTime]

AddTxIn(tx, txIn) == [tx EXCEPT !.TxIn = Append(@, txIn)]
AddTxOut(tx, txOut) == [tx EXCEPT !.TxOut = Append(@, txOut)]

TxInSerializeSize(txIn) ==
    40 + VarIntSerializeSize(Len(txIn.SignatureScript)) + Len(txIn.SignatureScript)

TxOutSerializeSize(txOut) ==
    8 + VarIntSerializeSize(Len(txOut.PkScript)) + Len(txOut.PkScript)

RECURSIVE SumTxInSizes(_)
SumTxInSizes(ins) ==
    IF ins = <<>> THEN 0 ELSE TxInSerializeSize(Head(ins)) + SumTxInSizes(Tail(ins))

RECURSIVE SumTxOutSizes(_)
SumTxOutSizes(outs) ==
    IF outs = <<>> THEN 0 ELSE TxOutSerializeSize(Head(outs)) + SumTxOutSizes(Tail(outs))

\* wire.MsgTx.SerializeSize of a transaction without witness data
SerializeSize(tx) ==
    8 + VarIntSerializeSize(Len(tx.TxIn)) + VarIntSerializeSize(Len(tx.TxOut))
      + SumTxInSizes(tx.TxIn) + SumTxOutSizes(tx.TxOut)

\* the weight rounded down
estimateTxSize_roundedDown(tx, numInputs, witnessSize) ==
    LET baseSize == SerializeSize(tx)
        witness == IF witnessSize = 0 THEN numInputs * WitnessPerInput ELSE witnessSize
        weight == baseSize * 4 + witness
    IN weight \div 4

\* estimateTxSize: virtual size, the weight rounded up to whole vbytes
estimateTxSize(tx, numInputs, witnessSize) ==
    LET baseSize == SerializeSize(tx)
        witness == IF witnessSize = 0 THEN numInputs * WitnessPerInput ELSE witnessSize
        weight == baseSize * 4 + witness
    IN (weight + 3) \div 4

\* --------------------------------------------------- deterministic ordering
\* the lengths left out of the comparison
ScriptLess_lexicographic(a, b) == BytesCompare(a, b) < 0

\* the comparator of sortScripts: length first, then bytewise
ScriptLess(a, b) ==
    IF Len(a) # Len(b) THEN Len(a) < Len(b)
    ELSE IF Diffs(a, b) # {} THEN a[FirstDiff(a, b)] < b[FirstDiff(a, b)]
    ELSE FALSE

RECURSIVE InsertScript(_, _)
InsertScript(sorted, x) ==
    IF sorted = <<>> THEN <<x>>
    ELSE IF ScriptLess(x, Last(sorted))
         THEN InsertScript(Front(sorted), x) \o <<Last(sorted)>>
         ELSE sorted \o <<x>>

RECURSIVE sortScripts(_)
sortScripts(scripts) ==
    IF scripts = <<>> THEN <<>>
    ELSE InsertScript(sortScripts(Front(scripts)), Last(scripts))

\* the output index left out of the comparison
TxInLess_hashOnly(a, b) ==
    BytesCompare(a.PreviousOutPoint.Hash, b.PreviousOutPoint.Hash) < 0

\* the comparator of sortTxInputs: previous txid bytes, then output index
TxInLess(a, b) ==
    LET cmp == BytesCompare(a.PreviousOutPoint.Hash, b.PreviousOutPoint.Hash)
    IN IF cmp # 0 THEN cmp < 0
       ELSE a.PreviousOutPoint.Index < b.PreviousOutPoint.Index

RECURSIVE InsertTxIn(_, _)
InsertTxIn(sorted, x) ==
    IF sorted = <<>> THEN <<x>>
    ELSE IF TxInLess(x, Last(sorted))
         THEN InsertTxIn(Front(sorted), x) \o <<Last(sorted)>>
         ELSE sorted \o <<x>>

RECURSIVE SortTxIns(_)
SortTxIns(ins) ==
    IF ins = <<>> THEN <<>> ELSE InsertTxIn(SortTxIns(Front(ins)), Last(ins))

\* the inputs left in the order they were added
sortTxInputs_unsorted(tx) == tx

sortTxInputs(tx) == [tx EXCEPT !.TxIn = SortTxIns(@)]

\* the comparator of sortTxOutputs: amount, then script
TxOutLess(a, b) ==
    IF a.Value # b.Value THEN a.Value < b.Value
    ELSE ScriptLess(a.PkScript, b.PkScript)

RECURSIVE InsertTxOut(_, _)
InsertTxOut(sorted, x) ==
    IF sorted = <<>> THEN <<x>>
    ELSE IF TxOutLess(x, Last(sorted))
         THEN InsertTxOut(Front(sorted), x) \o <<Last(sorted)>>
         ELSE sorted \o <<x>>

RECURSIVE SortTxOuts(_)
SortTxOuts(outs) ==
    IF outs = <<>> THEN <<>> ELSE InsertTxOut(SortTxOuts(Front(outs)), Last(outs))

\* the outputs left in the order they were added
sortTxOutputs_unsorted(tx) == tx

sortTxOutputs(tx) == [tx EXCEPT !.TxOut = SortTxOuts(@)]

\* ------------------------------------------------------- change addresses
AddrP2WPKH == "bc1qar0srrr7xfkvy5l643lydnw9re59gtzzwf5mdq"
AddrP2TR == "bc1p0xlxvlhemja6c4dqv22uapctqupfhlxm9h8z3k2e72q4k9hcz7vqzk5jj0"
AddrInvalid == "invalid_address_format"

\* btcutil.DecodeAddress followed by txscript.PayToAddrScript
PayToAddrScript(address) ==
    IF address = AddrP2WPKH
    THEN [script |-> <<0, 20, 232, 223, 1, 140, 126, 50, 108, 194, 83, 250, 172,
                       126, 70, 205, 197, 30, 104, 84, 44, 66>>,
          err |-> NoError]
    ELSE IF address = AddrP2TR
    THEN [script |-> <<OP_1, 32, 121, 190, 102, 126, 249, 220, 187, 172, 85, 160, 98,
                       149, 206, 135, 11, 7, 2, 155, 252, 219, 45, 206, 40, 217, 89,
                       242, 129, 91, 22, 248, 23, 152>>,
          err |-> NoError]
    ELSE [script |-> <<>>, err |-> "decoded address is of unknown format"]

\* ------------------------------------------------------ int64 arithmetic
\* amounts, fee rates and fees are int64 and their arithmetic wraps. The
\* machine word is modelled WordBits wide instead of 64: a two's-complement
\* word that wraps the same way, narrow enough for every product of a
\* transaction size and a fee rate to be computed exactly before it is
\* reduced.
WordBits == 20
MinInt64 == -(2 ^ (WordBits - 1))
MaxInt64 == 2 ^ (WordBits - 1) - 1

\* the word that holds x after wrap-around
Int64(x) == ((x - MinInt64) % (2 ^ WordBits)) + MinInt64

\* ----------------------------------------------------------- the builders
\* what a builder hands back: the (tx, error) pair and the params object as
\* the call leaves it
Return(params, tx) == [tx |-> Some(tx), err |-> NoError, params |-> params]
Fail(params, err) == [tx |-> Nil, err |-> err, params |-> params]

\* a clamp that raises the rate by one instead of setting the minimum
ClampFeeRate_step(feeRate) == IF feeRate < MinFeeRate THEN feeRate + 1 ELSE feeRate

\* a clamp that lets a zero rate through
ClampFeeRate_negativeOnly(feeRate) == IF feeRate < 0 THEN MinFeeRate ELSE feeRate

\* if params.FeeRate < MinFeeRate { params.FeeRate = MinFeeRate }
ClampFeeRate(feeRate) == IF feeRate < MinFeeRate THEN MinFeeRate ELSE feeRate

\* boarding output script: cooperative and timeout leaves (Makefile:147-170)
BoardingTaprootScript(params) ==
    LET aggKey == MuSig2AggregateKeys(<<Deref(params.UserPubKey), Deref(params.OperatorPubKey)>>)
        path1Script == BuildCheckSigScript(Deref(aggKey.key))
        path2Script == BuildCheckSigWithTimelockScript(Deref(params.UserPubKey),
                                                       params.TimeoutBlocks)
    IN CreateTaprootScript(Nil, sortScripts(<<path1Script, path2Script>>))

\* a dust change zeroed instead of dropped
AddChangeOutput_zeroed(params, tx, change, changeScript) ==
    LET withChange == AddTxOut(tx, NewTxOut(change, changeScript))
        fee == Int64(estimateTxSize(withChange, 1, 0) * params.FeeRate)
        newChange == Int64(Int64(Deref(params.FundingUTXO).Amount - params.Amount) - fee)
    IN IF newChange > DustLimit
       THEN [withChange EXCEPT !.TxOut[2].Value = newChange]
       ELSE [withChange EXCEPT !.TxOut[2].Value = 0]

\* the change left at its first estimate, the fee not re-estimated
AddChangeOutput_stale(params, tx, change, changeScript) ==
    AddTxOut(tx, NewTxOut(change, changeScript))

\* the change output is added, the fee re-estimated and the change either
\* updated or dropped (Makefile:192-206)
AddChangeOutput(params, tx, change, changeScript) ==
    LET withChange == AddTxOut(tx, NewTxOut(change, changeScript))
        fee == Int64(estimateTxSize(withChange, 1, 0) * params.FeeRate)
        newChange == Int64(Int64(Deref(params.FundingUTXO).Amount - params.Amount) - fee)
    IN IF newChange > DustLimit
       THEN [withChange EXCEPT !.TxOut[2].Value = newChange]
       ELSE [withChange EXCEPT !.TxOut = SubSeq(@, 1, 1)]

\* the checks made before anything is built (Makefile:121-129)
ValidateBoardingTxParams(params) ==
    IF params.FundingUTXO = Nil
    THEN "funding UTXO is required"
    ELSE IF params.UserPubKey = Nil \/ params.OperatorPubKey = Nil
    THEN "user and operator public keys are required"
    ELSE IF params.Amount <= 0
    THEN "amount must be positive"
    ELSE NoError

BuildBoardingTx(params) ==
    IF ValidateBoardingTxParams(params) # NoError
    THEN Fail(params, ValidateBoardingTxParams(params))
    ELSE
      LET p == [params EXCEPT !.FeeRate = ClampFeeRate(@)]
          funding == Deref(p.FundingUTXO)
          txIn == AddTxIn(newDeterministicTx(TxVersion, 0),
                          NewTxIn(funding, SequenceBoardingTx))
          tx == AddTxOut(txIn, NewTxOut(p.Amount, BoardingTaprootScript(p)))
          fee == Int64(estimateTxSize(tx, 1, 0) * p.FeeRate)
          change == Int64(Int64(funding.Amount - p.Amount) - fee)
      IN IF change > DustLimit /\ p.ChangeAddress # ""
         THEN LET changeScript == PayToAddrScript(p.ChangeAddress)
              IN IF changeScript.err # NoError
                 THEN Fail(p, changeScript.err)
                 ELSE Return(p, sortTxOutputs(
                          AddChangeOutput(p, tx, change, changeScript.script)))
         ELSE Return(p, sortTxOutputs(tx))

\* local connectorAmount: params.ConnectorAmount floored to the dust limit
connectorAmount(params) ==
    IF params.ConnectorAmount < DustLimit THEN DustLimit ELSE params.ConnectorAmount

\* for _, utxo := range utxos { ... tx.AddTxIn(txIn) }
RECURSIVE AddUTXOInputs(_, _, _)
AddUTXOInputs(tx, utxos, sequence) ==
    IF utxos = <<>> THEN tx
    ELSE AddUTXOInputs(AddTxIn(tx, NewTxIn(Head(utxos), sequence)), Tail(utxos), sequence)

\* operator inputs, then boarding inputs, then the canonical order
\* (commitment.go:36-62)
AddCommitmentInputs(tx, params) ==
    sortTxInputs(AddUTXOInputs(
        AddUTXOInputs(tx, params.OperatorUTXOs, SequenceCommitmentTx),
        params.BoardingOutputs, SequenceCommitmentTx))

\* batch output script: sweep and unroll leaves (commitment.go:64-96)
BatchTaprootScript(params) ==
    LET sweepScript == BuildCheckSigWithAbsTimelockScript(Deref(params.OperatorPubKey),
                                                          params.BatchExpiry)
        unrollScript == IF Len(params.UserPubKeys) > 0
                        THEN BuildCheckSigScript(
                                 Deref(MuSig2AggregateKeys(params.UserPubKeys).key))
                        ELSE sweepScript
    IN CreateTaprootScript(Nil, sortScripts(<<sweepScript, unrollScript>>))

\* connector output script (commitment.go:101-112)
ConnectorTaprootScript(params) ==
    CreateTaprootScript(Nil, <<BuildCheckSigScript(Deref(params.OperatorPubKey))>>)

\* the two outputs passed through the output canonicaliser
AddCommitmentOutputs_sorted(tx, params) ==
    sortTxOutputs(
        AddTxOut(AddTxOut(tx, NewTxOut(params.BatchAmount, BatchTaprootScript(params))),
                 NewTxOut(connectorAmount(params), ConnectorTaprootScript(params))))

\* batch first, connector second (commitment.go:98-115)
AddCommitmentOutputs(tx, params) ==
    AddTxOut(AddTxOut(tx, NewTxOut(params.BatchAmount, BatchTaprootScript(params))),
             NewTxOut(connectorAmount(params), ConnectorTaprootScript(params)))

RECURSIVE SumAmounts(_)
SumAmounts(utxos) ==
    IF utxos = <<>> THEN 0 ELSE Int64(Head(utxos).Amount + SumAmounts(Tail(utxos)))

\* the boarding outputs left out of the total
CommitmentTotalInput_operatorOnly(params) == SumAmounts(params.OperatorUTXOs)

\* totalInput of BuildCommitmentTx (commitment.go:117-124)
CommitmentTotalInput(params) ==
    Int64(SumAmounts(params.OperatorUTXOs) + SumAmounts(params.BoardingOutputs))

\* the checks made before anything is built (commitment.go:17-25)
ValidateCommitmentTxParams(params) ==
    IF Len(params.OperatorUTXOs) = 0
    THEN "at least one operator UTXO is required"
    ELSE IF params.OperatorPubKey = Nil
    THEN "operator public key is required"
    ELSE IF params.BatchAmount <= 0
    THEN "batch amount must be positive"
    ELSE NoError

BuildCommitmentTx(params) ==
    IF ValidateCommitmentTxParams(params) # NoError
    THEN Fail(params, ValidateCommitmentTxParams(params))
    ELSE
      LET p == [params EXCEPT !.FeeRate = ClampFeeRate(@)]
          tx == AddCommitmentOutputs(
                    AddCommitmentInputs(newDeterministicTx(TxVersion, 0), p), p)
          totalInput == CommitmentTotalInput(p)
          totalOutput == Int64(p.BatchAmount + connectorAmount(p))
          estimatedSize == estimateTxSize(tx, Len(tx.TxIn), 0)
          fee == Int64(estimatedSize * p.FeeRate)
      IN IF totalInput < Int64(totalOutput + fee)
         THEN Fail(p, "insufficient input amount to cover outputs and fees")
         ELSE Return(p, tx)

\* the two inputs passed through the input canonicaliser
AddForfeitInputs_sorted(tx, params) ==
    sortTxInputs(
        AddTxIn(AddTxIn(tx, NewTxIn(Deref(params.VTXO), SequenceForfeitTx)),
                NewTxIn(Deref(params.ConnectorAnchor), SequenceForfeitTx)))

\* VTXO first, connector anchor second (forfeit.go:39-55)
AddForfeitInputs(tx, params) ==
    AddTxIn(AddTxIn(tx, NewTxIn(Deref(params.VTXO), SequenceForfeitTx)),
            NewTxIn(Deref(params.ConnectorAnchor), SequenceForfeitTx))

\* operator output script (forfeit.go:57-67)
ForfeitTaprootScript(params) ==
    CreateTaprootScript(Nil, <<BuildCheckSigScript(Deref(params.OperatorPubKey))>>)

\* the connector anchor's value left out of the total
ForfeitOutputAmount_vtxoOnly(params, tx) ==
    LET totalInput == Deref(params.VTXO).Amount
        estimatedSize == estimateTxSize(tx, 2, 0)
        fee == Int64(estimatedSize * params.FeeRate)
    IN Int64(totalInput - fee)

\* outputAmount: inputs minus the fee estimated on the transaction as it
\* stands when the estimate is taken (forfeit.go:69-74)
ForfeitOutputAmount(params, tx) ==
    LET totalInput == Int64(Deref(params.VTXO).Amount + Deref(params.ConnectorAnchor).Amount)
        estimatedSize == estimateTxSize(tx, 2, 0)
        fee == Int64(estimatedSize * params.FeeRate)
    IN Int64(totalInput - fee)

\* the connector anchor's amount left unchecked
ValidateForfeitTxParams_anchorUnchecked(params) ==
    IF params.VTXO = Nil
    THEN "VTXO is required"
    ELSE IF params.ConnectorAnchor = Nil
    THEN "connector anchor is required"
    ELSE IF params.OperatorPubKey = Nil
    THEN "operator public key is required"
    ELSE IF Deref(params.VTXO).Amount <= 0
    THEN "VTXO amount must be positive"
    ELSE NoError

\* the checks made before anything is built (forfeit.go:16-30)
ValidateForfeitTxParams(params) ==
    IF params.VTXO = Nil
    THEN "VTXO is required"
    ELSE IF params.ConnectorAnchor = Nil
    THEN "connector anchor is required"
    ELSE IF params.OperatorPubKey = Nil
    THEN "operator public key is required"
    ELSE IF Deref(params.VTXO).Amount <= 0
    THEN "VTXO amount must be positive"
    ELSE IF Deref(params.ConnectorAnchor).Amount <= 0
    THEN "connector anchor amount must be positive"
    ELSE NoError

BuildForfeitTx(params) ==
    IF ValidateForfeitTxParams(params) # NoError
    THEN Fail(params, ValidateForfeitTxParams(params))
    ELSE
      LET p == [params EXCEPT !.FeeRate = ClampFeeRate(@)]
          tx == AddForfeitInputs(newDeterministicTx(TxVersion, 0), p)
          outputAmount == ForfeitOutputAmount(p, tx)
      IN IF outputAmount <= 0
         THEN Fail(p, "insufficient input amount to cover fees")
         ELSE Return(p, AddTxOut(tx, NewTxOut(outputAmount, ForfeitTaprootScript(p))))

\* ------------------------------------------------------- transaction ids
\* wire serialization without witness data
RECURSIVE SerializeTxIns(_)
SerializeTxIns(ins) ==
    IF ins = <<>> THEN <<>>
    ELSE Head(ins).PreviousOutPoint.Hash
         \o LittleEndian(Head(ins).PreviousOutPoint.Index, 4)
         \o VarInt(Len(Head(ins).SignatureScript)) \o Head(ins).SignatureScript
         \o Reverse(Head(ins).Sequence)
         \o SerializeTxIns(Tail(ins))

RECURSIVE SerializeTxOuts(_)
SerializeTxOuts(outs) ==
    IF outs = <<>> THEN <<>>
    ELSE LittleEndian(Head(outs).Value, 8)
         \o VarInt(Len(Head(outs).PkScript)) \o Head(outs).PkScript
         \o SerializeTxOuts(Tail(outs))

Serialize(tx) ==
    LittleEndian(tx.Version, 4)
    \o VarInt(Len(tx.TxIn)) \o SerializeTxIns(tx.TxIn)
    \o VarInt(Len(tx.TxOut)) \o SerializeTxOuts(tx.TxOut)
    \o LittleEndian(tx.LockTime, 4)

\* wire.MsgTx.TxHash: double hash of the serialization
TxHash(tx) == Sha256(Sha256(Serialize(tx)))

\* ------------------------------------------------------- caller's inputs
\* chainhash.Hash values; byte order is not numeric order
HashA == <<1>> \o Zeros(31)
HashB == Zeros(31) \o <<2>>
HashC == <<1>> \o Zeros(30) \o <<1>>

UTXO(txHash, outputIndex, amount) ==
    [TxHash |-> txHash, OutputIndex |-> outputIndex, Amount |-> amount]

\* public keys: two unrelated keys and the negation of the first
\* btcec.PrivKeyFromBytes(...).PubKey(): the private scalar times the generator
PubKey(priv) == ScalarMultNonConst(priv, 1)
UserKey == PubKey(3)
OperatorKey == PubKey(5)
KeyPool == {UserKey, OperatorKey, Negate(UserKey)}

\* all sequences over S of length 0 .. n
SeqsUpTo(S, n) == UNION {[1 .. k -> S] : k \in 0 .. n}

FeeRates == {-1, 0, 1, 2}

BoardingTxParams(funding, amount, user, operator, timeout, address, feeRate) ==
    [FundingUTXO |-> funding, Amount |-> amount, UserPubKey |-> user,
     OperatorPubKey |-> operator, TimeoutBlocks |-> timeout,
     ChangeAddress |-> address, FeeRate |-> feeRate]

CommitmentTxParams(ops, bos, batch, connector, operator, users, expiry, feeRate) ==
    [OperatorUTXOs |-> ops, BoardingOutputs |-> bos,
     BatchAmount |-> batch, ConnectorAmount |-> connector,
     OperatorPubKey |-> operator, UserPubKeys |-> users,
     BatchExpiry |-> expiry, FeeRate |-> feeRate]

ForfeitTxParams(vtxo, anchor, operator, feeRate) ==
    [VTXO |-> vtxo, ConnectorAnchor |-> anchor, OperatorPubKey |-> operator,
     FeeRate |-> feeRate]

\* funding amounts around the change and dust thresholds of a 1000 sat deposit
FundingAmounts == {500, 1111, 1657, 1658, 1688, 1689, 1701, 2142, 2154, 3000}

BoardingParamSet ==
    {BoardingTxParams(Some(UTXO(HashA, 0, f)), a, Some(UserKey), Some(OperatorKey),
                      144, addr, r) :
        f \in FundingAmounts, a \in {0, 100, 1000},
        addr \in {"", AddrP2WPKH, AddrP2TR, AddrInvalid}, r \in FeeRates}
    \cup {BoardingTxParams(f, 1000, u, o, 144, AddrP2WPKH, 1) :
        f \in {Nil, Some(UTXO(HashA, 0, 3000))},
        u \in {Nil, Some(UserKey)}, o \in {Nil, Some(OperatorKey)}}

\* amounts around the 1757 sat a two-input commitment of 1000 + 546 needs
OperatorPool == {UTXO(HashA, 0, 1700), UTXO(HashA, 1, 57), UTXO(HashB, 0, 1000)}
BoardingPool == {UTXO(HashB, 1, 56), UTXO(HashC, 0, 57)}

CommitmentParamSet ==
    {CommitmentTxParams(ops, bos, 1000, 0, Some(OperatorKey), <<UserKey>>, 800000, 1) :
        ops \in SeqsUpTo(OperatorPool, MaxUTXOs), bos \in SeqsUpTo(BoardingPool, MaxUTXOs)}
    \cup {CommitmentTxParams(<<UTXO(HashA, 0, 1700)>>, <<UTXO(HashB, 1, 1000)>>, 1000, 546,
                             Some(OperatorKey), users, 800000, 1) :
        users \in SeqsUpTo(KeyPool, MaxKeys)}
    \cup {CommitmentTxParams(<<UTXO(HashA, 0, f)>>, <<>>, b, c, o, <<>>, 144, r) :
        f \in {1699, 1700, 3000, 4000}, b \in {0, 100, 1000}, c \in {0, 545, 546, 1000, 2000},
        o \in {Nil, Some(OperatorKey)}, r \in FeeRates}

ForfeitParamSet ==
    {ForfeitTxParams(v, a, o, r) :
        v \in {Nil} \cup {Some(UTXO(h[1], h[2], amt)) :
                              h \in {<<HashA, 0>>, <<HashB, 1>>}, amt \in {-5, 0, 100, 1000}},
        a \in {Nil} \cup {Some(UTXO(h[1], h[2], amt)) :
                              h \in {<<HashA, 1>>, <<HashB, 0>>}, amt \in {0, 25, 26, 151, 546}},
        o \in {Nil, Some(OperatorKey)}, r \in FeeRates}

KeyLists == SeqsUpTo(KeyPool, MaxKeys)

ValidationOperatorUTXOs ==
    {<<>>, <<UTXO(HashA, 0, 3000)>>, <<UTXO(HashA, 1, -5)>>, <<UTXO(HashB, 0, 0)>>,
     <<UTXO(HashA, 0, 3000), UTXO(HashA, 1, -5)>>,
     <<UTXO(HashB, 0, 0), UTXO(HashA, 0, 3000)>>,
     <<UTXO(HashA, 0, 3000), UTXO(HashB, 0, 3000)>>}

ValidationBoardingOutputs ==
    {<<>>, <<UTXO(HashB, 1, -100)>>, <<UTXO(HashC, 0, 0)>>, <<UTXO(HashC, 0, 1000)>>}

\* fee rates and amounts at which a product or a sum leaves the word: the
\* sizes multiplied are 125 (forfeit) and 154 (one-input commitment)
OverflowRates ==
    {1, MaxInt64 \div 154, MaxInt64 \div 154 + 1, (2 ^ WordBits) \div 154,
     (2 ^ WordBits) \div 125, MaxInt64}

\* leaf scripts of the three shapes the builders use
LeafPool ==
    {BuildCheckSigScript(UserKey), BuildCheckSigScript(OperatorKey),
     BuildCheckSigWithTimelockScript(UserKey, 144)}

TaprootParamSet ==
    {[InternalPubKey |-> k, Scripts |-> s] :
        k \in {Nil, Some(UserKey)}, s \in SeqsUpTo(LeafPool, MaxLeaves)}

\* ------------------------------------------------------------------ state
VARIABLES
    params,      \* the caller's params objects, one per builder, as they are now
    given,       \* the field values the caller put into each object
    last,        \* the last call: op, the op before it, params at entry and exit, tx, err
    history,     \* per builder, the (given, tx, err) of every call so far
    commitment,  \* the commitment transaction the forfeit params were derived from
    calls,       \* number of calls made
    goroutines   \* the calls running concurrently on the caller's objects

vars == <<params, given, last, history, commitment, calls, goroutines>>

NoCall == [op |-> "none"]
NoHistory == [boarding |-> {}, commitment |-> {}, forfeit |-> {}]

InitWith(S) ==
    /\ params \in S
    /\ given = params
    /\ last = NoCall
    /\ history = NoHistory
    /\ commitment = Nil
    /\ calls = 0
    /\ goroutines = <<>>

\* the params objects of the mixed-call specification
Init ==
    InitWith({[boarding |-> b, commitment |-> c, forfeit |-> f] :
        b \in {BoardingTxParams(Some(UTXO(HashA, 0, amt)), 1000, Some(UserKey), Some(OperatorKey),
                               144, AddrP2WPKH, r) :
                 amt \in {1689, 3000}, r \in {-1, 1}},
        c \in {CommitmentTxParams(<<UTXO(HashA, 0, 1700)>>, <<UTXO(HashB, 1, amt)>>, 1000, conn,
                                 Some(OperatorKey), <<UserKey>>, 800000, r) :
                 amt \in {56, 1000}, conn \in {0, 2000}, r \in {-1, 2}},
        f \in {ForfeitTxParams(Some(UTXO(HashA, 1, 1000)), Some(UTXO(HashB, 0, a)),
                              Some(OperatorKey), r) :
                 a \in {151, 546}, r \in {-1, 2}}})
InitBoarding == InitWith({[boarding |-> b] : b \in BoardingParamSet})
InitCommitment == InitWith({[commitment |-> c] : c \in CommitmentParamSet})
InitForfeit == InitWith({[forfeit |-> f] : f \in ForfeitParamSet})
InitMuSig == InitWith({[musig |-> [Keys |-> k]] : k \in KeyLists})
InitTaproot == InitWith({[taproot |-> t] : t \in TaprootParamSet})
\* params whose outcome turns on the fee: amounts on both sides of what the
\* transaction costs at rate 1 and at rate 2
InitFees ==
    InitWith(
        {[boarding |-> x] : x \in
              {BoardingTxParams(Some(UTXO(HashA, 0, f)), 1000, Some(UserKey), Some(OperatorKey),
                                144, addr, r) :
                  f \in {1111, 1689, 3000}, addr \in {"", AddrP2WPKH, AddrP2TR}, r \in FeeRates}}
        \cup {[commitment |-> x] : x \in
              {CommitmentTxParams(<<UTXO(HashA, 0, f)>>, bos, 1000, 0, Some(OperatorKey),
                                  <<UserKey>>, 800000, r) :
                  f \in {1699, 1700, 1853, 1854}, bos \in {<<>>, <<UTXO(HashB, 1, 1000)>>},
                  r \in FeeRates}}
        \cup {[forfeit |-> x] : x \in
              {ForfeitTxParams(Some(UTXO(HashA, 1, u[1])), Some(UTXO(HashB, 0, u[2])),
                               Some(OperatorKey), r) :
                  u \in {<<1000, 546>>, <<100, 25>>, <<100, 26>>, <<200, 50>>, <<200, 51>>},
                  r \in FeeRates}})
InitOverflow ==
    InitWith(
        {[commitment |-> x] : x \in
              {CommitmentTxParams(ops, <<>>, b, 0, Some(OperatorKey), <<UserKey>>, 800000, r) :
                  ops \in {<<UTXO(HashA, 0, 1500)>>, <<UTXO(HashA, 0, 3000)>>,
                           <<UTXO(HashA, 0, MaxInt64)>>,
                           <<UTXO(HashA, 0, MaxInt64), UTXO(HashA, 1, MaxInt64)>>},
                  b \in {1000, MaxInt64}, r \in OverflowRates}}
        \cup {[forfeit |-> x] : x \in
              {ForfeitTxParams(Some(UTXO(HashA, 1, v)), Some(UTXO(HashB, 0, a)),
                               Some(OperatorKey), r) :
                  v \in {1000, MaxInt64}, a \in {546, MaxInt64}, r \in OverflowRates}})
\* a caller holding one params object of any of the three kinds
\* params around what the builders validate: missing fields, amounts at and
\* below zero and on both sides of the dust limit, inputs without value
InitBuilders ==
    InitWith(
        {[boarding |-> x] : x \in
              {BoardingTxParams(f, a, k[1], k[2], 144, addr, r) :
                  f \in {Nil} \cup {Some(UTXO(HashA, 0, amt)) : amt \in {-10000, 0, 3000}},
                  a \in {-1, 0, 1, 545, 546, 1000},
                  k \in {<<Some(UserKey), Some(OperatorKey)>>, <<Nil, Some(OperatorKey)>>,
                         <<Some(UserKey), Nil>>},
                  addr \in {"", AddrP2WPKH}, r \in {0, 1}}}
        \cup {[commitment |-> x] : x \in
              {CommitmentTxParams(ops, bos, b, 1000, o, <<UserKey>>, 800000, r) :
                  ops \in ValidationOperatorUTXOs, bos \in ValidationBoardingOutputs,
                  b \in {0, 1, 545, 546, 1000}, o \in {Nil, Some(OperatorKey)}, r \in {0, 1}}}
        \cup {[forfeit |-> x] : x \in
              {ForfeitTxParams(v, a, o, r) :
                  v \in {Nil} \cup {Some(UTXO(HashA, 0, amt)) : amt \in {-5, 0, 1000}},
                  a \in {Nil} \cup {Some(UTXO(HashA, 1, amt)) : amt \in {-5, 0, 546}},
                  o \in {Nil, Some(OperatorKey)}, r \in FeeRates}})

\* a builder call on the caller's object: the result is recorded and the
\* object keeps whatever the builder wrote into it
Call(op, r) ==
    /\ calls < MaxCalls
    /\ params' = [params EXCEPT ![op] = r.params]
    /\ last' = [op |-> op, prev |-> last.op, given |-> given[op], params |-> params[op],
                after |-> r.params, tx |-> r.tx, err |-> r.err]
    /\ history' = [history EXCEPT
                     ![op] = @ \cup {[given |-> given[op], tx |-> r.tx, err |-> r.err]}]
    /\ calls' = calls + 1
    /\ UNCHANGED <<given, commitment, goroutines>>

CallBuildBoardingTx ==
    /\ "boarding" \in DOMAIN params
    /\ Call("boarding", BuildBoardingTx(params.boarding))

CallBuildCommitmentTx ==
    /\ "commitment" \in DOMAIN params
    /\ Call("commitment", BuildCommitmentTx(params.commitment))

CallBuildForfeitTx ==
    /\ "forfeit" \in DOMAIN params
    /\ Call("forfeit", BuildForfeitTx(params.forfeit))

\* a direct call of the key aggregator
CallMuSig2AggregateKeys ==
    /\ calls < MaxCalls
    /\ "musig" \in DOMAIN params
    /\ LET r == MuSig2AggregateKeys(params.musig.Keys)
       IN last' = [op |-> "musig", prev |-> last.op, params |-> params.musig,
                   key |-> r.key, err |-> r.err]
    /\ calls' = calls + 1
    /\ UNCHANGED <<params, given, history, commitment, goroutines>>

\* a direct call of the script constructor
CallCreateTaprootScript ==
    /\ calls < MaxCalls
    /\ "taproot" \in DOMAIN params
    /\ last' = [op |-> "taproot", prev |-> last.op, params |-> params.taproot,
                script |-> CreateTaprootScript(params.taproot.InternalPubKey,
                                               params.taproot.Scripts),
                err |-> NoError]
    /\ calls' = calls + 1
    /\ UNCHANGED <<params, given, history, commitment, goroutines>>

\* a direct call of the tree builder
CallBuildTapscriptMerkleRoot ==
    /\ calls < MaxCalls
    /\ "taproot" \in DOMAIN params
    /\ last' = [op |-> "merkle", prev |-> last.op, params |-> params.taproot,
                root |-> buildTapscriptMerkleRoot(params.taproot.Scripts)]
    /\ calls' = calls + 1
    /\ UNCHANGED <<params, given, history, commitment, goroutines>>

\* a direct call of the script canonicaliser: it sorts a copy, so the
\* caller's slice is as it was
CallSortScripts ==
    /\ calls < MaxCalls
    /\ "taproot" \in DOMAIN params
    /\ last' = [op |-> "sortScripts", prev |-> last.op, params |-> params.taproot,
                sorted |-> sortScripts(params.taproot.Scripts),
                scripts |-> params.taproot.Scripts]
    /\ calls' = calls + 1
    /\ UNCHANGED <<params, given, history, commitment, goroutines>>

NextTaproot ==
    \/ CallCreateTaprootScript
    \/ CallBuildTapscriptMerkleRoot
    \/ CallSortScripts

\* the caller forfeits against the commitment transaction just built: the
\* VTXO is its output 0, the connector anchor its output 1
NewForfeitFromCommitment ==
    /\ last.op = "commitment"
    /\ last.tx # Nil
    /\ "forfeit" \in DOMAIN params
    /\ LET tx == Deref(last.tx)
           q == ForfeitTxParams(Some(UTXO(TxHash(tx), 0, tx.TxOut[1].Value)),
                                Some(UTXO(TxHash(tx), 1, tx.TxOut[2].Value)),
                                last.params.OperatorPubKey, last.given.FeeRate)
       IN /\ params' = [params EXCEPT !.forfeit = q]
          /\ given' = [given EXCEPT !.forfeit = q]
    /\ commitment' = last.tx
    /\ UNCHANGED <<last, history, calls, goroutines>>

\* ---------------------------------------------------- concurrent callers
\* the caller starts MaxGoroutines builder calls at once, each on one of its
\* params objects, and waits for all of them; nothing orders the steps of
\* two calls. A call's accesses to the object it was given are its steps:
\* the validation reads fields no call writes, then FeeRate is read and
\* compared with MinFeeRate, written if it is below, and read again for the
\* fee.
Builders == {"boarding", "commitment", "forfeit"}

Validate(op, p) ==
    CASE op = "boarding" -> ValidateBoardingTxParams(p)
      [] op = "commitment" -> ValidateCommitmentTxParams(p)
      [] op = "forfeit" -> ValidateForfeitTxParams(p)

Build(op, p) ==
    CASE op = "boarding" -> BuildBoardingTx(p)
      [] op = "commitment" -> BuildCommitmentTx(p)
      [] op = "forfeit" -> BuildForfeitTx(p)

Goroutine(op) ==
    [op |-> op, pc |-> "enter", read |-> FALSE, wrote |-> FALSE, tx |-> Nil, err |-> NoError]

InitConcurrent ==
    /\ params \in {[boarding |-> b, commitment |-> c, forfeit |-> f] :
           b \in {BoardingTxParams(Some(UTXO(HashA, 0, 3000)), 1000, Some(UserKey), Some(OperatorKey),
                                  144, AddrP2WPKH, r) : r \in {-1, 1}},
           c \in {CommitmentTxParams(<<UTXO(HashA, 0, 1700)>>, <<UTXO(HashB, 1, 1000)>>, 1000, 0,
                                    Some(OperatorKey), <<UserKey>>, 800000, r) : r \in {0, 2}},
           f \in {ForfeitTxParams(Some(UTXO(HashA, 1, 1000)), Some(UTXO(HashB, 0, a)),
                                 Some(OperatorKey), 0) : a \in {0, 546}}}
    /\ given = params
    /\ last = NoCall
    /\ history = NoHistory
    /\ commitment = Nil
    /\ calls = 0
    /\ goroutines \in [1 .. MaxGoroutines -> {Goroutine(op) : op \in Builders}]

\* validation, then `if params.FeeRate < MinFeeRate`
GoEnter(g) ==
    /\ goroutines[g].pc = "enter"
    /\ LET op == goroutines[g].op
           err == Validate(op, params[op])
       IN goroutines' = [goroutines EXCEPT ![g] =
              IF err # NoError
              THEN [@ EXCEPT !.pc = "done", !.err = err]
              ELSE [@ EXCEPT !.read = TRUE,
                             !.pc = IF params[op].FeeRate < MinFeeRate
                                    THEN "clamp" ELSE "build"]]
    /\ UNCHANGED <<params, given, last, history, commitment, calls>>

\* `params.FeeRate = MinFeeRate`
GoClamp(g) ==
    /\ goroutines[g].pc = "clamp"
    /\ params' = [params EXCEPT ![goroutines[g].op].FeeRate = MinFeeRate]
    /\ goroutines' = [goroutines EXCEPT ![g].wrote = TRUE, ![g].pc = "build"]
    /\ UNCHANGED <<given, last, history, commitment, calls>>

\* the rest of the body, which reads params.FeeRate for the fee
GoBuild(g) ==
    /\ goroutines[g].pc = "build"
    /\ LET op == goroutines[g].op
           r == Build(op, params[op])
       IN goroutines' = [goroutines EXCEPT ![g].pc = "done", ![g].tx = r.tx,
                                           ![g].err = r.err]
    /\ UNCHANGED <<params, given, last, history, commitment, calls>>

NextConcurrent ==
    \/ \E g \in DOMAIN goroutines : GoEnter(g)
    \/ \E g \in DOMAIN goroutines : GoClamp(g)
    \/ \E g \in DOMAIN goroutines : GoBuild(g)

\* the size estimate taken on the transaction a builder just returned, as
\* the builders take it: the transaction's input count, witness size 0
CallEstimateTxSize ==
    /\ calls < MaxCalls
    /\ last.op \in Builders
    /\ last.tx # Nil
    /\ last' = [op |-> "estimateTxSize", prev |-> last.op, tx |-> last.tx,
                numInputs |-> Len(Deref(last.tx).TxIn),
                size |-> estimateTxSize(Deref(last.tx), Len(Deref(last.tx).TxIn), 0)]
    /\ calls' = calls + 1
    /\ UNCHANGED <<params, given, history, commitment, goroutines>>

NextFees ==
    \/ CallBuildBoardingTx
    \/ CallBuildCommitmentTx
    \/ CallBuildForfeitTx
    \/ CallEstimateTxSize

NextOverflow ==
    \/ CallBuildCommitmentTx
    \/ CallBuildForfeitTx

NextBuilders ==
    \/ CallBuildBoardingTx
    \/ CallBuildCommitmentTx
    \/ CallBuildForfeitTx

Next ==
    \/ CallBuildBoardingTx
    \/ CallBuildCommitmentTx
    \/ CallBuildForfeitTx
    \/ NewForfeitFromCommitment

Spec == Init /\ [][Next]_vars
SpecBoarding == InitBoarding /\ [][CallBuildBoardingTx]_vars
SpecCommitment == InitCommitment /\ [][CallBuildCommitmentTx]_vars
SpecForfeit == InitForfeit /\ [][CallBuildForfeitTx]_vars
SpecMuSig == InitMuSig /\ [][CallMuSig2AggregateKeys]_vars
SpecTaproot == InitTaproot /\ [][NextTaproot]_vars
SpecFees == InitFees /\ [][NextFees]_vars
SpecOverflow == InitOverflow /\ [][NextOverflow]_vars
SpecBuilders == InitBuilders /\ [][NextBuilders]_vars
SpecConcurrent == InitConcurrent /\ [][NextConcurrent]_vars

\* ----------------------------------------------------------------- claims
Called(op) == last.op = op
Succeeded(op) == last.op = op /\ last.tx # Nil
LastTx == Deref(last.tx)

Max(a, b) == IF a > b THEN a ELSE b

RECURSIVE SumValues(_)
SumValues(outs) ==
    IF outs = <<>> THEN 0 ELSE Head(outs).Value + SumValues(Tail(outs))

\* all orderings of a sequence
Perms(seq) ==
    {[i \in 1 .. Len(seq) |-> seq[f[i]]] :
        f \in {g \in [1 .. Len(seq) -> 1 .. Len(seq)] :
                  \A i, j \in 1 .. Len(seq) : g[i] = g[j] => i = j}}

\* C1: two calls of the same builder on params with equal caller-supplied
\* field values return the same transaction and the same error, whatever
\* calls ran before or between them, earlier calls on the same params object
\* included.
C1_SameParamsSameTx ==
    \A op \in DOMAIN history :
        \A a, b \in history[op] :
            a.given = b.given => a.tx = b.tx /\ a.err = b.err

\* a boarding call that succeeded on an object an earlier boarding call had
\* already written to, with a commitment call in between
C1_Witness ==
    /\ Succeeded("boarding")
    /\ last.prev = "commitment"
    /\ last.params # last.given
    /\ last.given.FeeRate < MinFeeRate
    /\ Len(LastTx.TxOut) = 2

\* the params of a commitment call with one of its three lists reordered
Reordered(p) ==
    {[p EXCEPT !.OperatorUTXOs = x] : x \in Perms(p.OperatorUTXOs)}
    \cup {[p EXCEPT !.BoardingOutputs = x] : x \in Perms(p.BoardingOutputs)}
    \cup {[p EXCEPT !.UserPubKeys = x] : x \in Perms(p.UserPubKeys)}

\* C2: BuildCommitmentTx returns the same transaction for every reordering
\* of OperatorUTXOs, of BoardingOutputs or of UserPubKeys, and a failing
\* call fails for every reordering.
C2_CommitmentOrderIndependent ==
    Called("commitment") =>
        \A q \in Reordered(last.params) :
            /\ BuildCommitmentTx(q).tx = last.tx
            /\ (BuildCommitmentTx(q).err = NoError) = (last.err = NoError)

\* a successful call whose operator UTXOs were supplied out of canonical
\* order and whose boarding outputs are two different UTXOs
C2_Witness ==
    /\ Succeeded("commitment")
    /\ Len(last.params.OperatorUTXOs) = 2
    /\ TxInLess(NewTxIn(last.params.OperatorUTXOs[2], SequenceCommitmentTx),
                NewTxIn(last.params.OperatorUTXOs[1], SequenceCommitmentTx))
    /\ Len(last.params.BoardingOutputs) = 2
    /\ last.params.BoardingOutputs[1] # last.params.BoardingOutputs[2]

\* C3: MuSig2AggregateKeys returns the same point for every ordering of a
\* non-empty key list.
C3_AggregateOrderIndependent ==
    (Called("musig") /\ Len(last.params.Keys) > 0) =>
        \A k \in Perms(last.params.Keys) : MuSig2AggregateKeys(k).key = last.key

\* three different keys, supplied in an order the sort has to change
C3_Witness ==
    /\ Called("musig")
    /\ Len(last.params.Keys) = 3
    /\ Cardinality({last.params.Keys[i] : i \in 1 .. 3}) = 3
    /\ SortKeys(last.params.Keys) # last.params.Keys
    /\ last.key # Nil

\* C4: a successful BuildCommitmentTx returns exactly two outputs, the batch
\* output (value BatchAmount) at position 0 and the connector output (value
\* max(ConnectorAmount, DustLimit)) at position 1, whatever their values.
C4_CommitmentOutputsFixed ==
    Succeeded("commitment") =>
        /\ Len(LastTx.TxOut) = 2
        /\ LastTx.TxOut[1] = NewTxOut(last.params.BatchAmount,
                                      BatchTaprootScript(last.params))
        /\ LastTx.TxOut[2] = NewTxOut(Max(last.params.ConnectorAmount, DustLimit),
                                      ConnectorTaprootScript(last.params))

\* a successful call whose connector value exceeds the batch value
C4_Witness ==
    /\ Succeeded("commitment")
    /\ last.params.ConnectorAmount > last.params.BatchAmount
    /\ LastTx.TxOut[2].Value > LastTx.TxOut[1].Value

\* the outpoint a UTXO is spent by
OutPointOf(utxo) == [Hash |-> utxo.TxHash, Index |-> utxo.OutputIndex]

\* C5: a successful BuildForfeitTx returns exactly two inputs, input 0
\* spending the VTXO and input 1 the connector anchor, never reordered; so a
\* forfeit derived from a commitment transaction spends its batch output
\* (output 0) by input 0 and its connector output (output 1) by input 1.
C5_ForfeitInputsFixed ==
    Succeeded("forfeit") =>
        /\ Len(LastTx.TxIn) = 2
        /\ LastTx.TxIn[1].PreviousOutPoint = OutPointOf(Deref(last.params.VTXO))
        /\ LastTx.TxIn[2].PreviousOutPoint = OutPointOf(Deref(last.params.ConnectorAnchor))
        /\ commitment # Nil =>
              /\ LastTx.TxIn[1].PreviousOutPoint =
                     [Hash |-> TxHash(Deref(commitment)), Index |-> 0]
              /\ LastTx.TxIn[2].PreviousOutPoint =
                     [Hash |-> TxHash(Deref(commitment)), Index |-> 1]
              /\ Deref(last.params.VTXO).Amount = Deref(commitment).TxOut[1].Value
              /\ Deref(last.params.ConnectorAnchor).Amount = Deref(commitment).TxOut[2].Value

\* a successful forfeit derived from a commitment transaction
C5_Witness ==
    /\ Succeeded("forfeit")
    /\ commitment # Nil
    /\ LastTx.TxIn[1].PreviousOutPoint.Hash = TxHash(Deref(commitment))

\* the fee rate a builder charges
EffectiveFeeRate(p) == Max(p.FeeRate, MinFeeRate)

\* serialized sizes: 10 bytes of fixed fields and counts, 41 per unsigned
\* input, 9 plus the script per output
VSize(numInputs, scriptLens) ==
    LET base == 10 + 41 * numInputs
                + 9 * Cardinality(DOMAIN scriptLens)
                + SumValues([i \in DOMAIN scriptLens |-> [Value |-> scriptLens[i]]])
    IN (4 * base + 66 * numInputs + 3) \div 4

\* the residual funding of a boarding call once the fee of the transaction
\* with both the deposit and the change output is paid
BoardingResidual(p) ==
    Deref(p.FundingUTXO).Amount - p.Amount
        - VSize(1, <<34, Len(PayToAddrScript(p.ChangeAddress).script)>>) * EffectiveFeeRate(p)

\* C6: a successful BuildBoardingTx returns two outputs exactly when a change
\* address was supplied and funding minus amount minus the two-output fee
\* exceeds DustLimit; otherwise it returns the single output valued Amount;
\* no output is zero-valued and a change output is worth more than DustLimit.
C6_ChangeIffAboveDust ==
    Succeeded("boarding") =>
        /\ Len(LastTx.TxOut) \in {1, 2}
        /\ (Len(LastTx.TxOut) = 2) =
               (last.params.ChangeAddress # "" /\ BoardingResidual(last.params) > DustLimit)
        /\ Len(LastTx.TxOut) = 1 => LastTx.TxOut[1].Value = last.params.Amount
        /\ Len(LastTx.TxOut) = 2 =>
               \E i \in 1 .. 2 :
                   /\ LastTx.TxOut[i].Value = last.params.Amount
                   /\ LastTx.TxOut[3 - i].Value > DustLimit
                   /\ LastTx.TxOut[3 - i].PkScript =
                          PayToAddrScript(last.params.ChangeAddress).script

\* a change output that passed the first estimate and was dropped after the
\* fee was re-estimated
C6_Witness ==
    /\ Succeeded("boarding")
    /\ last.params.ChangeAddress = AddrP2WPKH
    /\ Deref(last.params.FundingUTXO).Amount - last.params.Amount
           - VSize(1, <<34>>) * EffectiveFeeRate(last.params) > DustLimit
    /\ Len(LastTx.TxOut) = 1

\* C7: a two-output boarding transaction has one output valued Amount and
\* output values summing to the funding amount minus the fee, the fee being
\* the estimated virtual size of the returned transaction times the
\* effective fee rate.
C7_ChangeConservesValue ==
    (Succeeded("boarding") /\ Len(LastTx.TxOut) = 2) =>
        /\ \E i \in 1 .. 2 : LastTx.TxOut[i].Value = last.params.Amount
        /\ SumValues(LastTx.TxOut) =
               Deref(last.params.FundingUTXO).Amount
                   - VSize(1, <<Len(LastTx.TxOut[1].PkScript), Len(LastTx.TxOut[2].PkScript)>>)
                         * EffectiveFeeRate(last.params)

\* a two-output transaction whose change is smaller than the deposit
C7_Witness ==
    /\ Succeeded("boarding")
    /\ Len(LastTx.TxOut) = 2
    /\ LastTx.TxOut[1].Value < last.params.Amount
    /\ last.params.FeeRate = 2

\* params that pass the validation of BuildCommitmentTx
CommitmentValid(p) ==
    Len(p.OperatorUTXOs) > 0 /\ p.OperatorPubKey # Nil /\ p.BatchAmount > 0

\* outputs plus fee of a commitment call: two 34-byte output scripts and all
\* operator and boarding inputs
CommitmentRequired(p) ==
    p.BatchAmount + Max(p.ConnectorAmount, DustLimit)
        + VSize(Len(p.OperatorUTXOs) + Len(p.BoardingOutputs), <<34, 34>>)
              * EffectiveFeeRate(p)

\* C8: with otherwise valid params BuildCommitmentTx fails, with the
\* insufficient-funds error, exactly when the operator and boarding amounts
\* sum to less than BatchAmount + max(ConnectorAmount, DustLimit) + fee;
\* every returned transaction has inputs worth at least outputs plus fee.
C8_InsufficientFundsIff ==
    (Called("commitment") /\ CommitmentValid(last.params)) =>
        /\ (last.tx = Nil) =
               (SumAmounts(last.params.OperatorUTXOs) + SumAmounts(last.params.BoardingOutputs)
                    < CommitmentRequired(last.params))
        /\ last.tx = Nil =>
               last.err = "insufficient input amount to cover outputs and fees"
        /\ last.tx # Nil =>
               SumAmounts(last.params.OperatorUTXOs) + SumAmounts(last.params.BoardingOutputs)
                   >= SumValues(LastTx.TxOut)
                        + VSize(Len(LastTx.TxIn), <<34, 34>>) * EffectiveFeeRate(last.params)

\* a call one satoshi short, part of the funds coming from a boarding output
C8_Witness ==
    /\ Called("commitment")
    /\ CommitmentValid(last.params)
    /\ last.tx = Nil
    /\ last.params.BoardingOutputs # <<>>
    /\ SumAmounts(last.params.OperatorUTXOs) + SumAmounts(last.params.BoardingOutputs)
           = CommitmentRequired(last.params) - 1

\* params that pass the validation of BuildForfeitTx
ForfeitValid(p) ==
    /\ p.VTXO # Nil /\ p.ConnectorAnchor # Nil /\ p.OperatorPubKey # Nil
    /\ Deref(p.VTXO).Amount > 0 /\ Deref(p.ConnectorAnchor).Amount > 0

\* inputs minus fee of a forfeit call, the fee estimated on the two inputs
ForfeitValue(p) ==
    Deref(p.VTXO).Amount + Deref(p.ConnectorAnchor).Amount
        - VSize(2, <<>>) * EffectiveFeeRate(p)

C10_FixedFields ==
    \A op \in {"boarding", "commitment", "forfeit"} :
        Succeeded(op) =>
            /\ LastTx.Version = 2
            /\ LastTx.LockTime = 0
            /\ \A i \in 1 .. Len(LastTx.TxIn) :
                   LastTx.TxIn[i].Sequence =
                       IF op = "boarding" THEN <<255, 255, 255, 253>>
                                          ELSE <<255, 255, 255, 255>>

\* a commitment transaction with more than one input
C10_Witness ==
    /\ Succeeded("commitment")
    /\ Len(LastTx.TxIn) >= 2

\* ---- C11
\* two calls on the same object conflict when one has written FeeRate and
\* the other has read it: nothing orders the two accesses
Conflict(g, h) ==
    /\ g # h
    /\ goroutines[g].op = goroutines[h].op
    /\ goroutines[g].wrote
    /\ goroutines[h].read

Alone(op) == Build(op, given[op])

\* C11: builder calls running concurrently on the same params object never
\* conflict on a memory location (no call writes what another call reads or
\* writes), and each call returns the transaction it returns when run alone
C11_ConcurrentCallsIndependent ==
    /\ \A g, h \in DOMAIN goroutines : ~Conflict(g, h)
    /\ \A g \in DOMAIN goroutines :
          goroutines[g].pc = "done" =>
              /\ goroutines[g].tx = Alone(goroutines[g].op).tx
              /\ goroutines[g].err = Alone(goroutines[g].op).err

\* ---- C12
\* C12: when a builder returns, with a transaction or with an error, every
\* field of the params struct and of the UTXOs it points to has the value it
\* had before the call
C12_ParamsReadOnly ==
    \A op \in Builders : Called(op) => last.after = last.params

\* ---- C13
\* C13: amounts below the dust floor are rejected: BuildBoardingTx returns
\* an error whenever 0 < Amount < DustLimit, and BuildCommitmentTx whenever
\* 0 < BatchAmount < DustLimit, whatever the funding available
C13_DustAmountsRejected ==
    /\ Called("boarding") /\ 0 < last.params.Amount /\ last.params.Amount < DustLimit
           => last.err # NoError
    /\ Called("commitment") /\ 0 < last.params.BatchAmount
                            /\ last.params.BatchAmount < DustLimit
           => last.err # NoError

\* ---- C14
HasNonPositive(utxos) == \E i \in DOMAIN utxos : utxos[i].Amount <= 0

\* C14: input UTXOs with non-positive amounts are rejected: BuildBoardingTx
\* returns an error whenever FundingUTXO.Amount <= 0, and BuildCommitmentTx
\* whenever an operator UTXO or a boarding-output UTXO has Amount <= 0, also
\* when the remaining inputs cover outputs plus fee
C14_NonPositiveInputsRejected ==
    /\ Called("boarding") /\ last.params.FundingUTXO # Nil
                          /\ Deref(last.params.FundingUTXO).Amount <= 0
           => last.err # NoError
    /\ Called("commitment") /\ (\/ HasNonPositive(last.params.OperatorUTXOs)
                                \/ HasNonPositive(last.params.BoardingOutputs))
           => last.err # NoError

\* ---- C15
\* C15: BuildBoardingTx returns an error whenever a non-empty ChangeAddress
\* cannot be decoded into an output script, for every funding amount, also
\* when funding minus amount minus fee is at or below the dust floor
C15_InvalidChangeAddressRejected ==
    Called("boarding") /\ last.params.ChangeAddress # ""
                       /\ PayToAddrScript(last.params.ChangeAddress).err # NoError
        => last.err # NoError

\* ---- C16
BoardingIncomplete(p) ==
    \/ p.FundingUTXO = Nil
    \/ p.UserPubKey = Nil
    \/ p.OperatorPubKey = Nil
    \/ p.Amount <= 0

CommitmentIncomplete(p) ==
    \/ Len(p.OperatorUTXOs) = 0
    \/ p.OperatorPubKey = Nil
    \/ p.BatchAmount <= 0

ForfeitIncomplete(p) ==
    \/ p.VTXO = Nil
    \/ p.ConnectorAnchor = Nil
    \/ p.OperatorPubKey = Nil
    \/ Deref(p.VTXO).Amount <= 0
    \/ Deref(p.ConnectorAnchor).Amount <= 0

Rejected == last.err # NoError /\ last.tx = Nil

\* C16: a builder returns an error and no transaction when a required field
\* is missing or a primary amount is non-positive (boarding: nil funding
\* UTXO, nil key, Amount <= 0; commitment: no operator UTXO, nil operator
\* key, BatchAmount <= 0; forfeit: nil VTXO, nil anchor, nil key, VTXO or
\* anchor amount <= 0), and no call returns both or neither
C16_IncompleteParamsRejected ==
    /\ Called("boarding") /\ BoardingIncomplete(last.params) => Rejected
    /\ Called("commitment") /\ CommitmentIncomplete(last.params) => Rejected
    /\ Called("forfeit") /\ ForfeitIncomplete(last.params) => Rejected
    /\ \A op \in Builders : Called(op) => (last.err # NoError <=> last.tx = Nil)

\* a forfeit whose only defect is a connector anchor without value was rejected
C16_Witness ==
    /\ Called("forfeit")
    /\ last.params.VTXO # Nil /\ last.params.ConnectorAnchor # Nil
    /\ last.params.OperatorPubKey # Nil
    /\ Deref(last.params.VTXO).Amount = 1000
    /\ Deref(last.params.ConnectorAnchor).Amount = 0
    /\ Rejected

\* ---- C17
\* C17: a FeeRate below MinFeeRate is not an error: the call returns exactly
\* what it returns for FeeRate = MinFeeRate with all other parameters equal
C17_LowFeeRateClamped ==
    \A op \in Builders :
        Called(op) /\ last.params.FeeRate < MinFeeRate =>
            LET atMin == Build(op, [last.params EXCEPT !.FeeRate = MinFeeRate])
            IN last.tx = atMin.tx /\ last.err = atMin.err

\* a boarding call with rate zero returned a transaction with a change
\* output, whose value depends on the rate
C17_Witness ==
    /\ Succeeded("boarding")
    /\ last.params.FeeRate = 0
    /\ Len(LastTx.TxOut) = 2

\* ---- C18
\* C18: MuSig2AggregateKeys returns an error and no key if and only if it is
\* called with zero keys; every non-empty key list yields a key and no error
C18_ErrorIffNoKeys ==
    Called("musig") =>
        /\ (last.err # NoError /\ last.key = Nil) <=> Len(last.params.Keys) = 0
        /\ Len(last.params.Keys) > 0 => last.key # Nil /\ last.err = NoError

\* the call without keys failed
C18_Witness ==
    /\ Called("musig")
    /\ Len(last.params.Keys) = 0
    /\ last.err # NoError
    /\ last.key = Nil

\* ---- C19
KeySet(keys) == {keys[i] : i \in DOMAIN keys}
Distinct(keys) == Cardinality(KeySet(keys)) = Len(keys)

\* C19: the aggregate of a non-empty set of distinct keys exists, differs
\* from each member key, and differs from the aggregate of the set extended
\* by one more key; in particular aggregate(A) # aggregate(A, B)
C19_AggregateSeparatesKeySets ==
    Called("musig") /\ Len(last.params.Keys) > 0 /\ Distinct(last.params.Keys) =>
        /\ last.err = NoError /\ last.key # Nil
        /\ \A k \in KeySet(last.params.Keys) : Deref(last.key) # k
        /\ \A b \in KeyPool \ KeySet(last.params.Keys) :
              MuSig2AggregateKeys(Append(last.params.Keys, b)).key # last.key

\* a single key was aggregated, and there are other keys to extend it by
C19_Witness ==
    /\ Called("musig")
    /\ Len(last.params.Keys) = 1
    /\ last.key # Nil
    /\ KeyPool \ KeySet(last.params.Keys) # {}

\* ---- C20
\* C20: CreateTaprootScript returns the same output script for every
\* permutation of the same leaf list, for any number of leaves, three or
\* more included
C20_LeafOrderIndependent ==
    Called("taproot") =>
        \A scripts \in Perms(last.params.Scripts) :
            CreateTaprootScript(last.params.InternalPubKey, scripts) = last.script

\* ---- C21
\* number of positions of a sequence holding x
Count(seq, x) == Cardinality({i \in DOMAIN seq : seq[i] = x})

SameMultiset(a, b) ==
    /\ Len(a) = Len(b)
    /\ \A i \in DOMAIN a : Count(a, a[i]) = Count(b, a[i])

OutPointsOf(utxos) == [i \in DOMAIN utxos |-> OutPointOf(utxos[i])]
SpentBy(tx) == [i \in DOMAIN tx.TxIn |-> tx.TxIn[i].PreviousOutPoint]

\* outpoint a may stand before outpoint b
OutPointLeq(a, b) ==
    \/ BytesCompare(a.Hash, b.Hash) < 0
    \/ a.Hash = b.Hash /\ a.Index <= b.Index

\* C21: the inputs of a transaction returned by BuildCommitmentTx are the
\* outpoints of all operator UTXOs and all boarding-output UTXOs, nothing
\* added or dropped, in ascending order of previous txid bytes and, for
\* equal txids, of previous output index
C21_CommitmentInputsSorted ==
    Succeeded("commitment") =>
        /\ SameMultiset(SpentBy(LastTx),
                        OutPointsOf(last.params.OperatorUTXOs \o last.params.BoardingOutputs))
        /\ \A i, j \in DOMAIN LastTx.TxIn :
              i < j => OutPointLeq(SpentBy(LastTx)[i], SpentBy(LastTx)[j])

\* two UTXOs of one previous transaction were given with the higher output
\* index first
C21_Witness ==
    /\ Succeeded("commitment")
    /\ LET givenOrder == OutPointsOf(last.params.OperatorUTXOs \o last.params.BoardingOutputs)
       IN \E i, j \in DOMAIN givenOrder :
              /\ i < j
              /\ givenOrder[i].Hash = givenOrder[j].Hash
              /\ givenOrder[i].Index > givenOrder[j].Index

\* ---- C22
\* script a may stand before script b: shorter first, equal lengths bytewise
ScriptLeq(a, b) ==
    \/ Len(a) < Len(b)
    \/ Len(a) = Len(b) /\ BytesCompare(a, b) <= 0

\* output a may stand before output b: amount, then script
TxOutLeq(a, b) ==
    \/ a.Value < b.Value
    \/ a.Value = b.Value /\ ScriptLeq(a.PkScript, b.PkScript)

DepositOutput(p) == NewTxOut(p.Amount, BoardingTaprootScript(p))
ChangeOutput(p) == NewTxOut(BoardingResidual(p), PayToAddrScript(p.ChangeAddress).script)

\* C22: the outputs of a transaction returned by BuildBoardingTx are in
\* ascending order of amount, equal amounts in order of output script
\* (shorter first, equal lengths bytewise); the deposit output is at index 1
\* when the change is smaller than Amount and at index 0 when it is larger;
\* the outputs are the deposit and, if any, the change, nothing else
C22_BoardingOutputsSorted ==
    Succeeded("boarding") =>
        /\ \A i, j \in DOMAIN LastTx.TxOut :
              i < j => TxOutLeq(LastTx.TxOut[i], LastTx.TxOut[j])
        /\ Len(LastTx.TxOut) = 1 => LastTx.TxOut = <<DepositOutput(last.params)>>
        /\ Len(LastTx.TxOut) = 2 =>
              /\ SameMultiset(LastTx.TxOut,
                              <<DepositOutput(last.params), ChangeOutput(last.params)>>)
              /\ BoardingResidual(last.params) < last.params.Amount
                    => LastTx.TxOut[2] = DepositOutput(last.params)
              /\ BoardingResidual(last.params) > last.params.Amount
                    => LastTx.TxOut[1] = DepositOutput(last.params)

\* deposit and change of equal value and equal script length: the order is
\* decided by the script bytes
C22_Witness ==
    /\ Succeeded("boarding")
    /\ Len(LastTx.TxOut) = 2
    /\ LastTx.TxOut[1].Value = LastTx.TxOut[2].Value
    /\ Len(LastTx.TxOut[1].PkScript) = Len(LastTx.TxOut[2].PkScript)
    /\ LastTx.TxOut[1].PkScript # LastTx.TxOut[2].PkScript

\* ---- C23
SortedByEncoding(keys) ==
    \A i, j \in DOMAIN keys :
        i < j => BytesCompare(SerializePubKey(keys[i]), SerializePubKey(keys[j])) <= 0

\* sum of Hash(L || encoding(P)) * P over the keys, in the group
RECURSIVE WeightedSum(_, _)
WeightedSum(keys, L) ==
    IF keys = <<>> THEN 0
    ELSE (BigEndianMod(Sha256(L \o SerializePubKey(Head(keys))), CurveOrder) * Head(keys)
          + WeightedSum(Tail(keys), L)) % CurveOrder

RECURSIVE PlainSum(_)
PlainSum(keys) ==
    IF keys = <<>> THEN 0 ELSE (Head(keys) + PlainSum(Tail(keys))) % CurveOrder

\* C23: for every non-empty key list MuSig2AggregateKeys returns the sum of
\* a_i * P_i, where the keys are taken in ascending order of their x-only
\* encoding, L is the hash of the concatenated encodings and a_i is the
\* hash of L || encoding(P_i) reduced modulo the curve order; for a single
\* key the result is a_1 * P_1
C23_CoefficientAggregate ==
    Called("musig") /\ Len(last.params.Keys) > 0 =>
        \A s \in Perms(last.params.Keys) :
            SortedByEncoding(s) =>
                last.key = Some(WeightedSum(s, Sha256(ConcatKeys(s))))

\* three different keys given out of order, whose aggregate is not their
\* plain sum
C23_Witness ==
    /\ Called("musig")
    /\ Len(last.params.Keys) = 3
    /\ Distinct(last.params.Keys)
    /\ ~SortedByEncoding(last.params.Keys)
    /\ last.key # Some(PlainSum(last.params.Keys))

\* ---- C24
\* TapLeaf hash of a script and TapBranch hash of two nodes, lower bytes first
Leaf(script) ==
    taggedHash(TagTapLeaf, <<BaseLeafVersion>> \o VarInt(Len(script)) \o script)

Branch(x, y) ==
    IF BytesCompare(x, y) <= 0
    THEN taggedHash(TagTapBranch, x \o y)
    ELSE taggedHash(TagTapBranch, y \o x)

\* C24: buildTapscriptMerkleRoot pairs neighbours left to right level by
\* level, hashes each pair as TapBranch over the byte-sorted pair and
\* promotes an unpaired last node unchanged: root([a]) = leaf(a),
\* root([a,b]) = branch(leaf(a), leaf(b)),
\* root([a,b,c]) = branch(branch(leaf(a), leaf(b)), leaf(c)),
\* and branch(x, y) = branch(y, x)
C24_MerkleRootShape ==
    Called("merkle") =>
        LET s == last.params.Scripts
            l == [i \in DOMAIN s |-> Leaf(s[i])]
        IN /\ Len(s) = 0 => last.root = <<>>
           /\ Len(s) = 1 => last.root = l[1]
           /\ Len(s) = 2 => last.root = Branch(l[1], l[2])
           /\ Len(s) = 3 => last.root = Branch(Branch(l[1], l[2]), l[3])
           /\ Len(s) = 4 => last.root = Branch(Branch(l[1], l[2]), Branch(l[3], l[4]))
           /\ \A i, j \in DOMAIN s :
                 /\ tapBranchHash(l[i], l[j]) = tapBranchHash(l[j], l[i])
                 /\ tapBranchHash(l[i], l[j]) = Branch(l[i], l[j])

\* three different leaves, the first hashing above the second, so that the
\* pair is swapped and the third leaf is promoted
C24_Witness ==
    /\ Called("merkle")
    /\ Len(last.params.Scripts) = 3
    /\ Cardinality({last.params.Scripts[i] : i \in 1 .. 3}) = 3
    /\ BytesCompare(Leaf(last.params.Scripts[1]), Leaf(last.params.Scripts[2])) > 0
    /\ last.root # <<>>

VBytes(tx, n) == -((-(4 * Len(Serialize(tx)) + 66 * n)) \div 4)

FeeOf(tx, n, p) == VBytes(tx, n) * EffectiveFeeRate(p)

\* C26: estimateTxSize(tx, n, 0) is the weight 4 * S + 66 * n rounded up to
\* whole virtual bytes, S being the serialized size of tx when the estimate
\* is taken, and every builder charges that size times max(FeeRate,
\* MinFeeRate): boarding change is funding minus deposit minus the fee of the
\* returned transaction, a commitment succeeds exactly when its inputs
\* cover outputs plus the fee of the returned transaction, and forfeit pays
\* out the inputs minus the fee of the two-input transaction as estimated
C26_VirtualSizeFee ==
    /\ Called("estimateTxSize") => last.size = VBytes(Deref(last.tx), last.numInputs)
    /\ Succeeded("boarding") /\ Len(LastTx.TxOut) = 2 =>
           SumValues(LastTx.TxOut) =
               Deref(last.params.FundingUTXO).Amount - FeeOf(LastTx, 1, last.params)
    /\ Succeeded("commitment") =>
           SumAmounts(last.params.OperatorUTXOs) + SumAmounts(last.params.BoardingOutputs)
               >= SumValues(LastTx.TxOut) + FeeOf(LastTx, Len(LastTx.TxIn), last.params)
    /\ Called("commitment") /\ CommitmentValid(last.params) /\ ~Succeeded("commitment") =>
           SumAmounts(last.params.OperatorUTXOs) + SumAmounts(last.params.BoardingOutputs)
               < CommitmentRequired(last.params)
    /\ Succeeded("forfeit") =>
           LastTx.TxOut[1].Value =
               Deref(last.params.VTXO).Amount + Deref(last.params.ConnectorAnchor).Amount
                   - FeeOf([LastTx EXCEPT !.TxOut = <<>>], 2, last.params)

\* the estimate of a returned one-input commitment transaction, whose
\* weight is not a multiple of four
C26_Witness ==
    /\ Called("estimateTxSize")
    /\ last.prev = "commitment"
    /\ last.numInputs = 1
    /\ (4 * Len(Serialize(Deref(last.tx))) + 66) % 4 # 0
    /\ last.size = 154

\* ---- C27
\* C27: for every transaction BuildBoardingTx returns, the output values
\* plus the estimated fee of that transaction are at most
\* FundingUTXO.Amount; the call does not succeed when the funding is below
\* Amount plus fee
C27_BoardingFunded ==
    Succeeded("boarding") =>
        SumValues(LastTx.TxOut) + FeeOf(LastTx, 1, last.params)
            <= Deref(last.params.FundingUTXO).Amount

\* ---- C28
\* sums as integers, not as machine words
RECURSIVE TrueSum(_)
TrueSum(utxos) == IF utxos = <<>> THEN 0 ELSE Head(utxos).Amount + TrueSum(Tail(utxos))

AllPositive(utxos) == \A i \in DOMAIN utxos : utxos[i].Amount > 0

\* C28: with fees and sums computed in wrapping signed arithmetic, for
\* every fee rate and all positive input amounts no builder succeeds
\* through an overflow: a successful BuildForfeitTx has an output value above
\* zero and below VTXO.Amount + ConnectorAnchor.Amount, and a successful
\* BuildCommitmentTx has output values summing to less than the true sum of
\* its input amounts
C28_NoSuccessThroughOverflow ==
    /\ Succeeded("forfeit") =>
           /\ 0 < LastTx.TxOut[1].Value
           /\ LastTx.TxOut[1].Value <
                  Deref(last.params.VTXO).Amount + Deref(last.params.ConnectorAnchor).Amount
    /\ Succeeded("commitment") /\ AllPositive(last.params.OperatorUTXOs)
                               /\ AllPositive(last.params.BoardingOutputs) =>
           SumValues(LastTx.TxOut) <
               TrueSum(last.params.OperatorUTXOs) + TrueSum(last.params.BoardingOutputs)

\* ---- C29
\* the fee a forfeit transaction pays: what its inputs hold beyond its output
ForfeitFeePaid(p, tx) ==
    Deref(p.VTXO).Amount + Deref(p.ConnectorAnchor).Amount - tx.TxOut[1].Value

\* C29: the fee paid by every successful forfeit transaction, the sum of the
\* two input amounts minus the output value, equals estimateTxSize of the
\* returned transaction (two inputs and its one output) times the effective
\* fee rate: the size used for the fee includes the operator output
C29_ForfeitFeeCoversOutput ==
    Succeeded("forfeit") =>
        ForfeitFeePaid(last.params, LastTx)
            = estimateTxSize(LastTx, 2, 0) * EffectiveFeeRate(last.params)

\* ---- C30
\* C30: for every non-empty list of valid public keys, a key together with
\* its negation or the same key twice included, MuSig2AggregateKeys returns
\* a valid curve point and never the point at infinity
C30_AggregateNeverInfinity ==
    Called("musig") /\ Len(last.params.Keys) > 0 =>
        /\ last.key # Nil
        /\ Deref(last.key) # 0

====
